---- MODULE Spec2Model ----
(***************************************************************************)
(* Model of backtester.py: run_backtest, the SMA-crossover backtest.       *)
(*                                                                         *)
(* The table df is modelled column by column as sequences (row i of the    *)
(* code, 0-based, is element i+1 of a sequence).  A column that has not    *)
(* been assigned yet is the empty sequence.                                *)
(*                                                                         *)
(* Arithmetic.  The values the loop computes (cash, shares, holdings,      *)
(* totals, metrics) are binary floating-point numbers: every + - * / of    *)
(* the code rounds its exact result to the nearest representable value     *)
(* (ties to even), with inf and nan as numpy produces them on a division   *)
(* by zero.  The model keeps that behaviour with a mantissa of MantBits    *)
(* bits instead of 53; the exponent is unbounded (no overflow/underflow).  *)
(* rolling(window=w).mean() is a library call and is modelled by its       *)
(* contract: nan on the first w-1 rows, the arithmetic mean of the last w  *)
(* closes afterwards (kept as the exact fraction sum/w).                   *)
(***************************************************************************)
EXTENDS Integers, Sequences, FiniteSets, TLC

\* ---------------------------------------------------------------- bounds
MaxLen == 4
MaxWin == 2
MantBits == 4

\* Closing prices of the input table (0 is a non-positive close).
Prices == {0, 1, 2, 3}
\* Values of initial_capital (0 is a non-positive capital).
Capitals == {0, 13}
\* Window lengths handed to rolling(); -1 is rejected by pandas.
Windows == -1..MaxWin

\* ------------------------------------------------- floating-point values
Abs(x) == IF x < 0 THEN -x ELSE x
Sgn(x) == IF x < 0 THEN -1 ELSE 1
Min(a, b) == IF a < b THEN a ELSE b

\* m * 2^e, with m = 0 or 2^(MantBits-1) <= |m| < 2^MantBits
Num(m, e) == [k |-> "num", m |-> m, e |-> e]
Inf(s) == [k |-> "inf", m |-> s, e |-> 0]
NaN == [k |-> "nan", m |-> 0, e |-> 0]
Zero == Num(0, 0)

\* The float nearest to (n / d) * 2^e, d > 0: round to nearest, ties to even.
RECURSIVE RoundQ(_, _, _)
RoundQ(n, d, e) ==
    IF n = 0 THEN Zero
    ELSE IF Abs(n) >= d * 2^MantBits THEN RoundQ(n, 2 * d, e + 1)
    ELSE IF Abs(n) < d * 2^(MantBits - 1) THEN RoundQ(2 * n, d, e - 1)
    ELSE LET q == Abs(n) \div d
             r == Abs(n) % d
             m == IF 2 * r > d \/ (2 * r = d /\ q % 2 = 1) THEN q + 1 ELSE q
         IN  IF m = 2^MantBits
             THEN Num(Sgn(n) * 2^(MantBits - 1), e + 1)
             ELSE Num(Sgn(n) * m, e)

FromInt(n) == RoundQ(n, 1, 0)
One == FromInt(1)
Hundred == FromInt(100)

FNeg(a) == IF a.k = "nan" THEN NaN ELSE [a EXCEPT !.m = -a.m]

FMul(a, b) ==
    IF a.k = "nan" \/ b.k = "nan" THEN NaN
    ELSE IF a.k = "inf" \/ b.k = "inf"
         THEN IF a.m = 0 \/ b.m = 0 THEN NaN ELSE Inf(Sgn(a.m) * Sgn(b.m))
    ELSE RoundQ(a.m * b.m, 1, a.e + b.e)

FDiv(a, b) ==
    IF a.k = "nan" \/ b.k = "nan" THEN NaN
    ELSE IF a.k = "inf"
         THEN IF b.k = "inf" THEN NaN ELSE Inf(Sgn(a.m) * Sgn(b.m))
    ELSE IF b.k = "inf" THEN Zero
    ELSE IF b.m = 0 THEN (IF a.m = 0 THEN NaN ELSE Inf(Sgn(a.m)))
    ELSE RoundQ(a.m * Sgn(b.m), Abs(b.m), a.e - b.e)

FAdd(a, b) ==
    IF a.k = "nan" \/ b.k = "nan" THEN NaN
    ELSE IF a.k = "inf"
         THEN IF b.k = "inf" /\ b.m # a.m THEN NaN ELSE a
    ELSE IF b.k = "inf" THEN b
    ELSE LET e == Min(a.e, b.e)
         IN  RoundQ(a.m * 2^(a.e - e) + b.m * 2^(b.e - e), 1, e)

FSub(a, b) == FAdd(a, FNeg(b))

\* a > b of the code: False when either side is nan
FGt(a, b) ==
    IF a.k = "nan" \/ b.k = "nan" THEN FALSE
    ELSE IF a.k = "inf" THEN a.m = 1 /\ ~(b.k = "inf" /\ b.m = 1)
    ELSE IF b.k = "inf" THEN b.m = -1
    ELSE LET e == Min(a.e, b.e)
         IN  a.m * 2^(a.e - e) > b.m * 2^(b.e - e)

\* a == b of the code: False when either side is nan
FEq(a, b) == a.k # "nan" /\ b.k # "nan" /\ a = b

\* ------------------------------------------------------ rolling averages
\* An average: nan, or the exact fraction n / d.
AvgNaN == [k |-> "nan", n |-> 0, d |-> 1]
Avg(n, d) == [k |-> "num", n |-> n, d |-> d]

RECURSIVE SumRange(_, _, _)
SumRange(s, lo, hi) == IF lo > hi THEN 0 ELSE s[hi] + SumRange(s, lo, hi - 1)

\* Variant: forward-looking window (FixedForwardWindowIndexer): row j
\* averages rows j .. j+w-1.
RollingAtForward(close, w, j) ==
    IF w >= 1 /\ j + w - 1 <= Len(close)
    THEN Avg(SumRange(close, j, j + w - 1), w) ELSE AvgNaN

\* Variant: min_periods = 1, a partial window is averaged over the rows
\* there are.
RollingAtMinPeriods1(close, w, j) ==
    IF w >= 1
    THEN Avg(SumRange(close, IF j >= w THEN j - w + 1 ELSE 1, j), Min(w, j))
    ELSE AvgNaN

\* close.rolling(window=w).mean() at row j (1-based): min_periods = w, so the
\* first w-1 rows are nan; a window of 0 rows has no mean.
RollingAt(close, w, j) ==
    IF w >= 1 /\ j >= w THEN Avg(SumRange(close, j - w + 1, j), w) ELSE AvgNaN

RollingMean(close, w) == [j \in 1..Len(close) |-> RollingAt(close, w, j)]

\* Short_SMA > Long_SMA: False when either side is nan
AvgGt(a, b) == a.k = "num" /\ b.k = "num" /\ a.n * b.d > b.n * a.d

\* ----------------------------------------------------------------- signals
\* Variant: nan compared as "not below" (np.where(~(short <= long), 1, 0)).
SignalOfNaNTrue(s, l) ==
    IF s.k = "nan" \/ l.k = "nan" \/ AvgGt(s, l) THEN One ELSE Zero

\* Variant: non-strict comparison (short >= long).
SignalOfGe(s, l) ==
    IF s.k = "num" /\ l.k = "num" /\ s.n * l.d >= l.n * s.d THEN One ELSE Zero

\* np.where(df['Short_SMA'] > df['Long_SMA'], 1.0, 0.0), one row
SignalOf(s, l) == IF AvgGt(s, l) THEN One ELSE Zero

SignalCol(ss, ls) == [j \in 1..Len(ss) |-> SignalOf(ss[j], ls[j])]

\* Variant: a difference is taken only where the previous day's averages are
\* both defined (an edge out of the undefined prefix yields nan).
DiffAtKnownPrev(sig, ss, ls, j) ==
    IF j = 1 \/ ss[j - 1].k = "nan" \/ ls[j - 1].k = "nan"
    THEN NaN ELSE FSub(sig[j], sig[j - 1])

\* Variant: the difference taken the other way round (previous - current).
DiffAtReversed(sig, ss, ls, j) ==
    IF j = 1 THEN NaN ELSE FSub(sig[j - 1], sig[j])

\* df['Signal'].diff(), one row: nan on the first row
DiffAt(sig, ss, ls, j) == IF j = 1 THEN NaN ELSE FSub(sig[j], sig[j - 1])

PositionCol(sig, ss, ls) == [j \in 1..Len(sig) |-> DiffAt(sig, ss, ls, j)]

\* ------------------------------------------------------------------- state
VARIABLES
    Close,            \* df['Close'], the input prices (integers)
    index,            \* df.index, the date keys of the rows (day numbers)
    initial_capital,  \* argument
    short_window,     \* argument
    long_window,      \* argument
    Short_SMA, Long_SMA, Signal, Position,      \* signal columns
    cash, shares, holdings_value, total_value,  \* portfolio columns
    i,                \* loop index of the simulation loop (0-based row)
    pc,               \* "smas", "signals", "portfolio", "loop", "done", "error"
    err,              \* "none" or the exception that ended the run
    metrics,          \* the returned summary, NoMetrics until the run returns
    run,              \* 1 in the first call, 2 in a second call on the same table
    first             \* what the first call returned, NoOutputs until a second call

vars == <<Close, index, initial_capital, short_window, long_window, Short_SMA,
          Long_SMA, Signal, Position, cash, shares, holdings_value,
          total_value, i, pc, err, metrics, run, first>>

inputs == <<Close, index, initial_capital, short_window, long_window>>
signalCols == <<Short_SMA, Long_SMA, Signal, Position>>
portfolioCols == <<cash, shares, holdings_value, total_value>>
calls == <<run, first>>

N == Len(Close)
ClosePrice(d) == FromInt(Close[d + 1])
Capital == FromInt(initial_capital)
NoMetrics == [final_value |-> NaN, total_return |-> NaN,
              buy_and_hold_value |-> NaN, buy_and_hold_return |-> NaN]

\* What a call returns: the table's derived columns and the four metrics.
Outputs ==
    [Short_SMA |-> Short_SMA, Long_SMA |-> Long_SMA, Signal |-> Signal,
     Position |-> Position, cash |-> cash, shares |-> shares,
     holdings_value |-> holdings_value, total_value |-> total_value,
     metrics |-> metrics]
NoOutputs ==
    [Short_SMA |-> <<>>, Long_SMA |-> <<>>, Signal |-> <<>>,
     Position |-> <<>>, cash |-> <<>>, shares |-> <<>>,
     holdings_value |-> <<>>, total_value |-> <<>>, metrics |-> NoMetrics]

AllSeries == UNION {[1..n -> Prices] : n \in 0..MaxLen}

Init ==
    /\ Close \in AllSeries
    /\ index = [j \in 1..Len(Close) |-> j]
    /\ initial_capital \in Capitals
    /\ short_window \in Windows
    /\ long_window \in Windows
    /\ Short_SMA = <<>> /\ Long_SMA = <<>> /\ Signal = <<>> /\ Position = <<>>
    /\ cash = <<>> /\ shares = <<>> /\ holdings_value = <<>> /\ total_value = <<>>
    /\ i = 0
    /\ pc = "smas"
    /\ err = "none"
    /\ metrics = NoMetrics
    /\ run = 1
    /\ first = NoOutputs

\* ----------------------------------------------------------------- actions
\* Variant: the rows without both averages are dropped from the table after
\* the averages are computed (df.dropna(inplace=True)).
CalcSMAsDropNa ==
    /\ pc = "smas"
    /\ short_window >= 0 /\ long_window >= 0
    /\ LET firstRow == IF short_window = 0 \/ long_window = 0 THEN N + 1
                       ELSE IF short_window > long_window THEN short_window
                       ELSE long_window
       IN  /\ Close' = SubSeq(Close, firstRow, N)
           /\ index' = SubSeq(index, firstRow, N)
           /\ Short_SMA' = SubSeq(RollingMean(Close, short_window), firstRow, N)
           /\ Long_SMA' = SubSeq(RollingMean(Close, long_window), firstRow, N)
    /\ pc' = "signals"
    /\ UNCHANGED <<initial_capital, short_window, long_window, Signal, Position,
                   portfolioCols, i, err, metrics, calls>>

\* Lines 30-31.  rolling() raises ValueError on a negative window; the short
\* column is already assigned when the long window is the negative one.
CalcSMAs ==
    /\ pc = "smas"
    /\ IF short_window < 0
       THEN /\ pc' = "error" /\ err' = "ValueError"
            /\ UNCHANGED <<Short_SMA, Long_SMA>>
       ELSE IF long_window < 0
       THEN /\ pc' = "error" /\ err' = "ValueError"
            /\ Short_SMA' = RollingMean(Close, short_window)
            /\ UNCHANGED Long_SMA
       ELSE /\ pc' = "signals" /\ err' = err
            /\ Short_SMA' = RollingMean(Close, short_window)
            /\ Long_SMA' = RollingMean(Close, long_window)
    /\ UNCHANGED <<inputs, Signal, Position, portfolioCols, i, metrics, calls>>

\* Lines 34-39.
GenerateSignals ==
    /\ pc = "signals"
    /\ Signal' = SignalCol(Short_SMA, Long_SMA)
    /\ Position' = PositionCol(Signal', Short_SMA, Long_SMA)
    /\ pc' = "portfolio"
    /\ UNCHANGED <<inputs, Short_SMA, Long_SMA, portfolioCols, i, err, metrics,
                   calls>>

\* Variant: a table that already carries a total_value column resumes from
\* its last total instead of initial_capital.
InitPortfolioResume ==
    /\ pc = "portfolio"
    /\ LET start == IF total_value = <<>> THEN Capital ELSE total_value[N]
       IN  /\ cash' = [j \in 1..N |-> start]
           /\ total_value' = [j \in 1..N |-> start]
    /\ holdings_value' = [j \in 1..N |-> Zero]
    /\ shares' = [j \in 1..N |-> Zero]
    /\ i' = 1
    /\ pc' = "loop"
    /\ UNCHANGED <<inputs, signalCols, err, metrics, calls>>

\* Variant: total_value starts at 0.0 like holdings_value and shares.
InitPortfolioZeroTotal ==
    /\ pc = "portfolio"
    /\ cash' = [j \in 1..N |-> Capital]
    /\ holdings_value' = [j \in 1..N |-> Zero]
    /\ total_value' = [j \in 1..N |-> Zero]
    /\ shares' = [j \in 1..N |-> Zero]
    /\ i' = 1
    /\ pc' = "loop"
    /\ UNCHANGED <<inputs, signalCols, err, metrics, calls>>

\* Lines 43-46, and the loop header's first index (range(1, len(df))).
InitPortfolio ==
    /\ pc = "portfolio"
    /\ cash' = [j \in 1..N |-> Capital]
    /\ holdings_value' = [j \in 1..N |-> Zero]
    /\ total_value' = [j \in 1..N |-> Capital]
    /\ shares' = [j \in 1..N |-> Zero]
    /\ i' = 1
    /\ pc' = "loop"
    /\ UNCHANGED <<inputs, signalCols, err, metrics, calls>>

\* Line 55: buy signal and cash on the previous day
BuyCond(pos, prevCash) == FEq(pos, One) /\ FGt(prevCash, Zero)
\* Line 61: sell signal and shares on the previous day
SellCond(pos, prevShares) == FEq(pos, FNeg(One)) /\ FGt(prevShares, Zero)

\* Variant: the buy leaves the cash in place (line 58 missing).
DayCashKeep(pos, prevCash, prevShares, close) ==
    IF BuyCond(pos, prevCash) THEN prevCash
    ELSE IF SellCond(pos, prevShares)
    THEN FAdd(prevCash, FMul(prevShares, close))
    ELSE prevCash

\* Variant: without the carry-forward of line 51, a day without a trade
\* keeps the column's initial value, initial_capital.
DayCashNoCarry(pos, prevCash, prevShares, close) ==
    IF BuyCond(pos, prevCash) THEN Zero
    ELSE IF SellCond(pos, prevShares)
    THEN FAdd(prevCash, FMul(prevShares, close))
    ELSE Capital

\* cash of day i after lines 51, 58, 63
DayCash(pos, prevCash, prevShares, close) ==
    IF BuyCond(pos, prevCash) THEN Zero
    ELSE IF SellCond(pos, prevShares)
    THEN FAdd(prevCash, FMul(prevShares, close))
    ELSE prevCash

\* Variant: without the carry-forward of line 52, a day without a trade
\* keeps the column's initial 0.0.
DaySharesNoCarry(pos, prevCash, prevShares, close) ==
    IF BuyCond(pos, prevCash) THEN FAdd(prevShares, FDiv(prevCash, close))
    ELSE Zero

\* Variant: the sell leaves the shares in place (line 64 missing).
DaySharesKeepOnSell(pos, prevCash, prevShares, close) ==
    IF BuyCond(pos, prevCash) THEN FAdd(prevShares, FDiv(prevCash, close))
    ELSE prevShares

\* shares of day i after lines 52, 57, 64
DayShares(pos, prevCash, prevShares, close) ==
    IF BuyCond(pos, prevCash) THEN FAdd(prevShares, FDiv(prevCash, close))
    ELSE IF SellCond(pos, prevShares) THEN Zero
    ELSE prevShares

\* Variant: the holdings are valued with the shares of the previous day.
DayHoldingsPrev(newShares, prevShares, close) == FMul(prevShares, close)

\* Variant: the holdings are the number of shares, not multiplied by the
\* close.
DayHoldingsNoPrice(newShares, prevShares, close) == newShares

\* Line 67
DayHoldings(newShares, prevShares, close) == FMul(newShares, close)

\* Variant: the day's total is written one row early (row i-1).
SimulateDayTotalOneRowEarly ==
    /\ pc = "loop"
    /\ i < N
    /\ LET pos == Position[i + 1]
           prevCash == cash[i]
           prevShares == shares[i]
           close == ClosePrice(i)
           c == DayCash(pos, prevCash, prevShares, close)
           s == DayShares(pos, prevCash, prevShares, close)
           h == DayHoldings(s, prevShares, close)
       IN  /\ cash' = [cash EXCEPT ![i + 1] = c]
           /\ shares' = [shares EXCEPT ![i + 1] = s]
           /\ holdings_value' = [holdings_value EXCEPT ![i + 1] = h]
           /\ total_value' = [total_value EXCEPT ![i] = FAdd(c, h)]
    /\ i' = i + 1
    /\ UNCHANGED <<inputs, signalCols, pc, err, metrics, calls>>

\* Lines 49-69: one iteration of the loop, for row i.
SimulateDay ==
    /\ pc = "loop"
    /\ i < N
    /\ LET pos == Position[i + 1]
           prevCash == cash[i]
           prevShares == shares[i]
           close == ClosePrice(i)
           c == DayCash(pos, prevCash, prevShares, close)
           s == DayShares(pos, prevCash, prevShares, close)
           h == DayHoldings(s, prevShares, close)
       IN  /\ cash' = [cash EXCEPT ![i + 1] = c]
           /\ shares' = [shares EXCEPT ![i + 1] = s]
           /\ holdings_value' = [holdings_value EXCEPT ![i + 1] = h]
           /\ total_value' = [total_value EXCEPT ![i + 1] = FAdd(c, h)]
    /\ i' = i + 1
    /\ UNCHANGED <<inputs, signalCols, pc, err, metrics, calls>>

\* Lines 71-82, after the loop.  .iloc[-1] of an empty column raises
\* IndexError.  (Line 71 copies total_value into Portfolio_Total, a column
\* only the plot reads; it is not kept as a separate variable.)
CalcMetrics ==
    /\ pc = "loop"
    /\ i >= N
    /\ IF N = 0
       THEN /\ pc' = "error" /\ err' = "IndexError"
            /\ UNCHANGED metrics
       ELSE /\ pc' = "done" /\ err' = err
            /\ LET fv == total_value[N]
                   bh == FMul(Capital, FDiv(ClosePrice(N - 1), ClosePrice(0)))
               IN  metrics' =
                     [final_value |-> fv,
                      total_return |-> FMul(FSub(FDiv(fv, Capital), One), Hundred),
                      buy_and_hold_value |-> bh,
                      buy_and_hold_return |->
                          FMul(FSub(FDiv(bh, Capital), One), Hundred)]
    /\ UNCHANGED <<inputs, signalCols, portfolioCols, i, calls>>

Next == CalcSMAs \/ GenerateSignals \/ InitPortfolio \/ SimulateDay \/ CalcMetrics

Spec == Init /\ [][Next]_vars

\* A second call of run_backtest with the same arguments on the table the
\* first call returned (the call of line 120, repeated on results_df): the
\* table keeps every column the first call added, the locals are fresh.
Rerun ==
    /\ pc = "done"
    /\ run = 1
    /\ run' = 2
    /\ first' = Outputs
    /\ pc' = "smas"
    /\ i' = 0
    /\ err' = "none"
    /\ metrics' = NoMetrics
    /\ UNCHANGED <<inputs, signalCols, portfolioCols>>

NextTwice == Next \/ Rerun

SpecTwice == Init /\ [][NextTwice]_vars

\* ------------------------------------------------------ reading the table
\* Days whose signal columns are computed, and days the loop has finished
\* (day 0 is finished by the column initialisation of lines 43-46).
SigDays == IF pc \in {"portfolio", "loop", "done"} THEN 0..(N - 1) ELSE {}
SimDays == IF pc \in {"loop", "done"} THEN 0..(Min(i, N) - 1) ELSE {}

IsEnter(d) == FEq(Position[d + 1], One)
IsExit(d) == FEq(Position[d + 1], FNeg(One))
EnterDays == {d \in SigDays : IsEnter(d)}
ExitDays == {d \in SigDays : IsExit(d)}

OutOfMarket(d) == FGt(cash[d + 1], Zero) /\ FEq(shares[d + 1], Zero)
InMarket(d) == FEq(cash[d + 1], Zero) /\ FGt(shares[d + 1], Zero)

\* Vocabulary of the claims: the two portfolio states and the input and
\* configuration contracts of the specification.
PositiveCloses == \A j \in 1..N : Close[j] > 0
ConstantCloses == \A j \in 1..N : Close[j] = Close[1]
InvalidInput == N = 0 \/ ~PositiveCloses
InvalidConfig ==
    \/ short_window <= 0 \/ long_window <= 0 \/ short_window >= long_window
    \/ short_window > N \/ long_window > N
    \/ initial_capital <= 0

\* ------------------------------------------------------------------ claims
\* C1: with positive closes (and a positive initial capital), on every day of
\* a run the portfolio is OutOfMarket (cash > 0, shares = 0) or InMarket
\* (cash = 0, shares > 0), never both and never neither, and on every day up
\* to which no Enter has occurred cash = initial_capital and shares = 0.
C1_TwoStates ==
    (PositiveCloses /\ initial_capital > 0) =>
        \A d \in SimDays :
            /\ OutOfMarket(d) # InMarket(d)
            /\ (\A k \in 0..d : ~IsEnter(k)) =>
                   (cash[d + 1] = Capital /\ shares[d + 1] = Zero)

C1_Witness ==
    /\ pc = "done" /\ PositiveCloses /\ initial_capital > 0
    /\ \E d \in SimDays : \E d2 \in SimDays :
           d < d2 /\ InMarket(d) /\ OutOfMarket(d2) /\ IsExit(d2)

\* C2: on every day of the output, day 0 and trade days included,
\* total_value is cash + shares * Close of that same day.
C2_TotalValue ==
    \A d \in SimDays :
        total_value[d + 1] =
            FAdd(cash[d + 1], FMul(shares[d + 1], ClosePrice(d)))

C2_Witness ==
    /\ pc = "done" /\ PositiveCloses
    /\ \E d \in SimDays : IsEnter(d) /\ InMarket(d) /\ d + 1 \in SimDays
                          /\ total_value[d + 2] # total_value[d + 1]

ValidConfig ==
    /\ 0 < short_window /\ short_window < long_window /\ long_window <= N
    /\ initial_capital > 0
ValidInput == N > 0 /\ PositiveCloses

\* C3: a non-empty series shorter than long_window (positive closes, positive
\* capital, 0 < short_window < long_window) never yields a returned result:
\* the run is to fail with InsufficientHistory.
C3_InsufficientHistoryFails ==
    (ValidInput /\ initial_capital > 0 /\ 0 < short_window
        /\ short_window < long_window /\ N < long_window) => pc # "done"

\* C4: an invalid configuration (on a valid price series) never yields a
\* returned result: the run is to fail with InvalidWindow or InvalidCapital.
C4_InvalidConfigFails == (ValidInput /\ InvalidConfig) => pc # "done"

\* C5: an empty series or a series with a non-positive close (under a valid
\* configuration) never yields a returned result: the run is to fail with
\* InvalidInput.
C5_InvalidInputFails == (InvalidInput /\ ValidConfig) => pc # "done"

\* C6 as stated: no transition on any day i <= long_window - 1.
C6_NoTransitionUpToFirstDefined ==
    (ValidInput /\ ValidConfig) =>
        \A d \in SigDays : d <= long_window - 1 => ~IsEnter(d) /\ ~IsExit(d)

\* C6 as amended: no transition on any day i < long_window - 1; on day
\* long_window - 1 the undefined previous trend counts as false, so the
\* transition is Enter exactly when Short_SMA > Long_SMA on that day, and it
\* is never Exit.
C6_FirstDefinedDayMayEnter ==
    \A d \in SigDays :
        /\ d < long_window - 1 => ~IsEnter(d) /\ ~IsExit(d)
        /\ d = long_window - 1 =>
               /\ ~IsExit(d)
               /\ IsEnter(d) <=> AvgGt(Short_SMA[d + 1], Long_SMA[d + 1])

C6_Witness ==
    /\ pc = "done" /\ ValidInput /\ ValidConfig
    /\ \E d \in SimDays : d = long_window - 1 /\ IsEnter(d) /\ InMarket(d)

\* C7: over the whole series the number of Enter transitions minus the
\* number of Exit transitions is 0 or 1, for every series and window pair.
C7_TransitionParity ==
    pc \in {"portfolio", "loop", "done"} =>
        Cardinality(EnterDays) - Cardinality(ExitDays) \in {0, 1}

C7_Witness ==
    /\ pc = "done"
    /\ Cardinality(EnterDays) = 2 /\ Cardinality(ExitDays) = 1

\* C8: no look-ahead.  When the signal columns have been produced (they are
\* not written again afterwards), replacing the close of any day j by any
\* other price leaves Short_SMA, Long_SMA, Signal and Position of every day
\* d < j as they are in this run (series differing at several later days
\* follow by changing one day at a time).
C8_NoLookAhead ==
    pc = "portfolio" =>
        \A j \in SigDays : \A v \in Prices \ {Close[j + 1]} :
            LET c2 == [Close EXCEPT ![j + 1] = v]
                ss2 == RollingMean(c2, short_window)
                ls2 == RollingMean(c2, long_window)
                sig2 == SignalCol(ss2, ls2)
                pos2 == PositionCol(sig2, ss2, ls2)
            IN  \A d \in 0..(j - 1) :
                    /\ ss2[d + 1] = Short_SMA[d + 1]
                    /\ ls2[d + 1] = Long_SMA[d + 1]
                    /\ sig2[d + 1] = Signal[d + 1]
                    /\ pos2[d + 1] = Position[d + 1]

C8_Witness ==
    /\ pc = "portfolio" /\ ValidInput /\ ValidConfig
    /\ \E d \in SigDays : IsEnter(d) /\ d + 1 \in SigDays
                          /\ Close[d + 2] # Close[d + 1]

\* C9: for a constant price series of length >= long_window the trend is
\* false on every day, there is no Enter and no Exit, cash stays at
\* initial_capital and shares at 0, final_value = initial_capital and the
\* buy-and-hold return is 0.
C9_ConstantSeries ==
    (ValidInput /\ ConstantCloses /\ N >= long_window /\ initial_capital > 0) =>
        /\ \A d \in SigDays :
               Signal[d + 1] = Zero /\ ~IsEnter(d) /\ ~IsExit(d)
        /\ \A d \in SimDays : cash[d + 1] = Capital /\ shares[d + 1] = Zero
        /\ pc = "done" =>
               /\ metrics.final_value = Capital
               /\ metrics.buy_and_hold_return = Zero

C9_Witness ==
    /\ pc = "done" /\ ValidInput /\ ValidConfig /\ ConstantCloses
    /\ N > long_window /\ Close[1] = 3

\* C10: if the series has a single Enter, on day k at close p, and no later
\* Exit, then shares = initial_capital / p and cash = 0 on every day from k
\* on, and cash = initial_capital and shares = 0 on every day before k.
C10_SingleEnter ==
    (ValidInput /\ initial_capital > 0) =>
        \A k \in SigDays :
            (EnterDays = {k} /\ \A x \in ExitDays : x < k) =>
                \A d \in SimDays :
                    /\ d >= k => /\ shares[d + 1] = FDiv(Capital, ClosePrice(k))
                                 /\ cash[d + 1] = Zero
                    /\ d < k => /\ cash[d + 1] = Capital
                                /\ shares[d + 1] = Zero

C10_Witness ==
    /\ pc = "done" /\ ValidInput /\ ValidConfig
    /\ \E k \in SigDays :
           /\ EnterDays = {k} /\ ExitDays = {}
           /\ k + 1 \in SimDays
           /\ Close[k + 2] # Close[k + 1]

\* C11: a second call with the same arguments, on the table the first call
\* has already augmented, returns the same columns and the same metrics as
\* the first call.
C11_SecondRunIdentical ==
    (run = 2 /\ pc = "done") => Outputs = first

C11_Witness ==
    /\ run = 2 /\ pc = "done" /\ ValidInput /\ ValidConfig
    /\ EnterDays # {} /\ ExitDays # {}
    /\ metrics.final_value # Capital

\* C12: with positive windows the signal columns have one entry per price
\* point; Short_SMA is undefined (nan) on exactly the first short_window-1
\* rows and Long_SMA on exactly the first long_window-1 rows; an undefined
\* average is nan, not 0: a row with an undefined average has Signal 0
\* whatever the other average is.
C12_Alignment ==
    (pc \in {"portfolio", "loop", "done"} /\ short_window >= 1
        /\ long_window >= 1) =>
        /\ Len(Short_SMA) = N /\ Len(Long_SMA) = N
        /\ Len(Signal) = N /\ Len(Position) = N
        /\ \A j \in 1..N :
               /\ Short_SMA[j].k = "nan" <=> j <= short_window - 1
               /\ Long_SMA[j].k = "nan" <=> j <= long_window - 1
               /\ (Short_SMA[j].k = "nan" \/ Long_SMA[j].k = "nan") =>
                      Signal[j] = Zero

C12_Witness ==
    /\ pc = "portfolio" /\ ValidInput /\ ValidConfig /\ N > long_window
    /\ long_window > 1
    /\ Long_SMA[long_window - 1].k = "nan" /\ Long_SMA[long_window].k = "num"
    /\ Short_SMA[1].k = "num" /\ Short_SMA[1].n > 0 /\ Signal[1] = Zero

\* C13: no step of a run changes the caller's series: the date keys and the
\* close prices stay as they were and no row is added or removed, whether
\* the run returns or fails.
C13_SeriesReadOnly == [][Close' = Close /\ index' = index]_vars

C13_Witness ==
    /\ pc = "done" /\ ValidInput /\ ValidConfig
    /\ EnterDays # {} /\ Len(Short_SMA) = N /\ Len(total_value) = N
    /\ N > long_window

\* C14: on a day i > 0 with an Enter and cash > 0 on day i-1,
\* shares[i] = shares[i-1] + cash[i-1] / Close[i] and cash[i] = 0; on a day
\* i > 0 with an Exit and shares > 0 on day i-1,
\* cash[i] = cash[i-1] + shares[i-1] * Close[i] and shares[i] = 0; both at
\* the close of day i.
C14_TradeRules ==
    \A d \in SimDays : d >= 1 =>
        /\ (IsEnter(d) /\ FGt(cash[d], Zero)) =>
               /\ shares[d + 1] = FAdd(shares[d], FDiv(cash[d], ClosePrice(d)))
               /\ cash[d + 1] = Zero
        /\ (IsExit(d) /\ FGt(shares[d], Zero)) =>
               /\ cash[d + 1] = FAdd(cash[d], FMul(shares[d], ClosePrice(d)))
               /\ shares[d + 1] = Zero

C14_Witness ==
    /\ pc = "done" /\ ValidInput /\ ValidConfig
    /\ \E d \in SimDays : \E x \in SimDays :
           /\ 1 <= d /\ d < x
           /\ IsEnter(d) /\ FGt(cash[d], Zero) /\ Close[d + 1] # Close[d]
           /\ IsExit(x) /\ FGt(shares[x], Zero) /\ Close[x + 1] # Close[x]
           /\ Close[x + 1] # Close[d + 1]

\* C15: on a day i > 0 on which no trade applies (no transition, an Enter
\* with no cash on day i-1, an Exit with no shares on day i-1) cash and
\* shares are those of day i-1, and the run has raised no error.
C15_NoTradeDays ==
    \A d \in SimDays :
        (/\ d >= 1
         /\ ~(IsEnter(d) /\ FGt(cash[d], Zero))
         /\ ~(IsExit(d) /\ FGt(shares[d], Zero))) =>
            /\ cash[d + 1] = cash[d]
            /\ shares[d + 1] = shares[d]
            /\ err = "none"

C15_Witness ==
    /\ pc = "done" /\ ValidInput /\ ValidConfig
    /\ \E d \in SimDays :
           /\ d >= 2 /\ ~IsEnter(d) /\ ~IsExit(d)
           /\ InMarket(d - 1) /\ InMarket(d) /\ Close[d + 1] # Close[d]

\* The degenerate guard at work: an Enter day that finds no cash and trades
\* nothing (reached with initial_capital = 0).
C15_GuardedEnter ==
    /\ pc = "done"
    /\ \E d \in SimDays :
           d >= 1 /\ IsEnter(d) /\ cash[d] = Zero /\ shares[d + 1] = Zero

\* C16: on day 0 cash = initial_capital, shares = 0 and total_value =
\* initial_capital (OutOfMarket when the capital is positive), the transition
\* of day 0 is none (Position is nan), and no trade is made on day 0: the
\* row keeps these values to the end of the run.
C16_DayZero ==
    0 \in SimDays =>
        /\ cash[1] = Capital /\ shares[1] = Zero
        /\ holdings_value[1] = Zero /\ total_value[1] = Capital
        /\ Position[1] = NaN /\ ~IsEnter(0) /\ ~IsExit(0)
        /\ initial_capital > 0 => OutOfMarket(0)

C16_Witness ==
    /\ pc = "done" /\ ValidInput /\ ValidConfig /\ 0 \in SimDays
    /\ \E d \in SimDays : IsEnter(d) /\ InMarket(d)
    /\ metrics.final_value # Capital

\* C17: the portfolio rows are built strictly left to right: a step of the
\* loop moves from day i to day i+1, writes the cash, shares, holdings and
\* total of row i only, and leaves every other row, the rows of all earlier
\* days included, and the signal columns as they are.
C17_LeftToRight ==
    [][pc = "loop" =>
          /\ pc' = "loop" => i' = i + 1
          /\ <<Short_SMA, Long_SMA, Signal, Position>>' =
                 <<Short_SMA, Long_SMA, Signal, Position>>
          /\ \A j \in 1..N : j # i + 1 =>
                 /\ cash'[j] = cash[j] /\ shares'[j] = shares[j]
                 /\ holdings_value'[j] = holdings_value[j]
                 /\ total_value'[j] = total_value[j]]_vars

C17_Witness ==
    /\ pc = "loop" /\ ValidInput /\ ValidConfig
    /\ 2 <= i /\ i < N
    /\ InMarket(i - 1) /\ IsExit(i)

\* Enter transitions minus Exit transitions on days 0..d
PrefixBalance(d) ==
    Cardinality({k \in EnterDays : k <= d})
        - Cardinality({k \in ExitDays : k <= d})

\* C18: on the generated signals Enter and Exit alternate, starting with
\* Enter (in every prefix #Enter - #Exit is 0 or 1); so, with positive closes
\* and a positive capital, every Enter day finds cash > 0 on the day before
\* and buys, and every Exit day finds shares > 0 on the day before and
\* sells: the guard suppresses no generated signal.
C18_Alternation ==
    /\ \A d \in SigDays : PrefixBalance(d) \in {0, 1}
    /\ (PositiveCloses /\ initial_capital > 0) =>
           \A d \in SimDays : d >= 1 =>
               /\ IsEnter(d) => (FGt(cash[d], Zero) /\ InMarket(d))
               /\ IsExit(d) => (FGt(shares[d], Zero) /\ OutOfMarket(d))

C18_Witness ==
    /\ pc = "done" /\ ValidInput /\ ValidConfig
    /\ \E a \in EnterDays : \E x \in ExitDays : \E b \in EnterDays :
           a < x /\ x < b /\ InMarket(a) /\ OutOfMarket(x) /\ InMarket(b)

\* a equals b up to the two roundings of a division followed by a
\* multiplication: |a - b| <= 3 * 2^(-MantBits) * |b|, compared exactly.
WithinTwoRoundings(a, b) ==
    /\ a.k = "num" /\ b.k = "num"
    /\ LET e == Min(a.e, b.e)
           x == a.m * 2^(a.e - e)
           y == b.m * 2^(b.e - e)
       IN  Abs(x - y) * 2^MantBits <= 3 * Abs(y)

NoTrade(d) ==
    ~(IsEnter(d) /\ FGt(cash[d], Zero)) /\ ~(IsExit(d) /\ FGt(shares[d], Zero))

\* C19 as stated: on an Enter day total_value[i] = cash[i-1], on an Exit day
\* total_value[i] = shares[i-1] * Close[i], and on a day without a trade
\* that ends OutOfMarket total_value[i] = total_value[i-1].
C19_NoValueChangeExact ==
    (ValidInput /\ initial_capital > 0) =>
        \A d \in SimDays : d >= 1 =>
            /\ IsEnter(d) => total_value[d + 1] = cash[d]
            /\ IsExit(d) => total_value[d + 1] = FMul(shares[d], ClosePrice(d))
            /\ (NoTrade(d) /\ OutOfMarket(d)) =>
                   total_value[d + 1] = total_value[d]

\* C19 as amended: on an Enter day total_value[i] is cash[i-1] divided by
\* and multiplied with Close[i] in floating point, equal to cash[i-1] up to
\* the two roundings but not always exactly; the Exit and no-trade parts are
\* exact.
C19_NoValueChangeUpToRounding ==
    (ValidInput /\ initial_capital > 0) =>
        \A d \in SimDays : d >= 1 =>
            /\ IsEnter(d) =>
                   /\ total_value[d + 1] =
                          FMul(FDiv(cash[d], ClosePrice(d)), ClosePrice(d))
                   /\ WithinTwoRoundings(total_value[d + 1], cash[d])
            /\ IsExit(d) => total_value[d + 1] = FMul(shares[d], ClosePrice(d))
            /\ (NoTrade(d) /\ OutOfMarket(d)) =>
                   total_value[d + 1] = total_value[d]

C19_Witness ==
    /\ pc = "done" /\ ValidInput /\ ValidConfig
    /\ \E d \in SimDays : \E x \in SimDays :
           /\ 1 <= d /\ d < x /\ x + 1 \in SimDays
           /\ IsEnter(d) /\ total_value[d + 1] # cash[d]
           /\ IsExit(x) /\ NoTrade(x + 1) /\ OutOfMarket(x + 1)

====
